---- MODULE Spec2Model ----
(***************************************************************************)
(* Model of the stitcher utilities: the Feed wrappers around a capture     *)
(* device (app/util/feed.py), the capture tool (app/util/capture.py), the  *)
(* configuration prompt tool (configure.py) and the ordering-preserving    *)
(* containers (utils/sorted_dict.py).                                      *)
(*                                                                         *)
(* Times are integer microseconds.  A frame is a record carrying the index *)
(* of the source frame it was decoded from (1 = first frame of the handle),*)
(* its shape and whether distortion correction was applied; idx = 0 is the *)
(* None that a failed read yields.                                         *)
(***************************************************************************)
EXTENDS Integers, Sequences, FiniteSets, TLC

\* ---------------------------------------------------------------- bounds
MaxFrames == 4        \* largest finite source (file) length
MaxReopens == 2       \* reopenings of a handle by is_valid in a free run

\* ------------------------------------------------------ program constants
DEFAULT_WIDTH == 640
DEFAULT_HEIGHT == 480
DEFAULT_FPS == 30
FRAME_OVERHEAD == 72906
\* A ramp one frame short.
RAMP_DEFAULT_short == 30 - 1
RAMP_DEFAULT == 30
VIDEO_DURATION_DEFAULT == 5
VIDEO_FPS_DEFAULT == 30

MicrosPerSecond == 1000 * 1000

\* ------------------------------------------------------------ input sets
FpsValues == {5, 10, 30}
ProcTimes == {25000, 250000}
Shapes == {<<480, 640>>, <<720, 1280>>}

VARIABLES
    prog,       \* which entry point runs: "feed", "show", "capture", "configure"
    pc,         \* position inside that entry point
    device,     \* the capture device or file behind the feed
    feed,       \* the Feed object's fields
    lastOp,     \* the Feed method that returned last
    ret,        \* what it returned
    timing,     \* processing time and sleep of the last CameraFeed.get_next
    shown,      \* frames handed to imshow by show()
    probed,     \* what is_valid() reported last on this feed: "none", "valid", "invalid"
    cap,        \* locals and effects of capture.py
    cfg         \* locals and effects of configure.py

vars == <<prog, pc, device, feed, lastOp, ret, timing, shown, probed, cap, cfg>>

\* ------------------------------------------------------- values returned
NoFrame == [idx |-> 0, h |-> 0, w |-> 0, corrected |-> FALSE]
RetNone == [kind |-> "none", b |-> FALSE, frame |-> NoFrame]
RetBool(b) == [kind |-> "bool", b |-> b, frame |-> NoFrame]
RetFrame(f) == [kind |-> "frame", b |-> f.idx > 0, frame |-> f]
RetPair(ok, f) == [kind |-> "pair", b |-> ok, frame |-> f]
RetError == [kind |-> "error", b |-> FALSE, frame |-> NoFrame]
NoTiming == [elapsed |-> 0, slept |-> 0, didSleep |-> FALSE]

\* ------------------------------------------------- the capture device API
\* cv2.VideoCapture(x): a new handle at the start of the source; it is
\* opened only when the device or file exists.
VideoCapture(dev, gen) == [opened |-> dev.exists, pos |-> 0, gen |-> gen]

\* handle.grab(): advances past one frame when there is one.
CanGrab(dev, h) == h.opened /\ (dev.live \/ h.pos < dev.frames)

Grab(dev, h) ==
    IF CanGrab(dev, h) THEN [ok |-> TRUE, handle |-> [h EXCEPT !.pos = h.pos + 1]]
    ELSE [ok |-> FALSE, handle |-> h]

\* handle.retrieve(): decodes the frame grabbed last, if any.
Retrieve(dev, h) ==
    IF h.opened /\ h.pos > 0
    THEN [idx |-> h.pos, h |-> dev.shape[1], w |-> dev.shape[2], corrected |-> FALSE]
    ELSE NoFrame

\* handle.read(): grab followed by retrieve; (False, None) when grab fails.
Read(dev, h) ==
    LET g == Grab(dev, h) IN
    [ok |-> g.ok, frame |-> IF g.ok THEN Retrieve(dev, g.handle) ELSE NoFrame,
     handle |-> g.handle]

\* handle.release()
Release(h) == [h EXCEPT !.opened = FALSE]

\* correct_distortion(frame): same shape, corrected.
CorrectDistortion(f) == [f EXCEPT !.corrected = TRUE]

\* imutils.resize(frame, width=W): width W, height scaled by W / w.
Resize(f, width) == [f EXCEPT !.w = width, !.h = (f.h * width) \div f.w]

\* ------------------------------------------------------------ Feed objects
FrameDuration(fps) == MicrosPerSecond \div fps

NewCameraFeed(dev, fps) ==
    [kind |-> "camera", handle |-> VideoCapture(dev, 0),
     width |-> DEFAULT_WIDTH, height |-> DEFAULT_HEIGHT,
     fps |-> fps, frame_duration |-> FrameDuration(fps)]

NewVideoFeed(dev) ==
    [kind |-> "video", handle |-> VideoCapture(dev, 0),
     width |-> DEFAULT_WIDTH, height |-> DEFAULT_HEIGHT,
     fps |-> 0, frame_duration |-> 0]

\* is_valid() that keeps the handle it probed with instead of reopening.
is_valid_no_reopen(dev, fd) ==
    LET g == Grab(dev, fd.handle) IN
    [feed |-> [fd EXCEPT !.handle = g.handle], ret |-> RetBool(g.ok)]

\* is_valid() that releases and reopens whatever the probe said.
is_valid_always_reopen(dev, fd) ==
    LET g == Grab(dev, fd.handle) IN
    [feed |-> [fd EXCEPT !.handle = VideoCapture(dev, fd.handle.gen + 1)],
     ret |-> RetBool(g.ok)]

\* is_valid(): probe with one grab; on success release and reopen.
is_valid(dev, fd) ==
    LET g == Grab(dev, fd.handle) IN
    IF g.ok
    THEN [feed |-> [fd EXCEPT !.handle = VideoCapture(dev, fd.handle.gen + 1)],
          ret |-> RetBool(TRUE)]
    ELSE [feed |-> [fd EXCEPT !.handle = g.handle], ret |-> RetBool(FALSE)]

\* has_next() as a pure query that leaves the handle where it is.
has_next_peek(dev, fd) == [feed |-> fd, ret |-> RetBool(CanGrab(dev, fd.handle))]

\* has_next(): returns handle.grab().
has_next(dev, fd) ==
    LET g == Grab(dev, fd.handle) IN
    [feed |-> [fd EXCEPT !.handle = g.handle], ret |-> RetBool(g.ok)]

\* retrieve_next(): returns handle.retrieve().
retrieve_next(dev, fd) ==
    LET f == Retrieve(dev, fd.handle) IN
    [feed |-> fd, ret |-> RetPair(f.idx > 0, f)]

\* The sleep get_next performs after a frame took `elapsed` to process.
SleepTime(frame_duration, elapsed) ==
    LET time_left == frame_duration - elapsed
        time_left_adjusted == time_left - FRAME_OVERHEAD
    IN IF time_left_adjusted > 0 THEN time_left_adjusted ELSE 0

\* get_next(resize, correct): read, correct, resize, pace (camera only).
\* Correcting or resizing the None of a failed read raises.
get_next(dev, fd, resize, correct, elapsed) ==
    LET r == Read(dev, fd.handle)
        fd2 == [fd EXCEPT !.handle = r.handle]
        f1 == IF correct THEN CorrectDistortion(r.frame) ELSE r.frame
        f2 == IF resize THEN Resize(f1, fd.width) ELSE f1
        s == SleepTime(fd.frame_duration, elapsed)
    IN IF ~r.ok /\ (correct \/ resize)
       THEN [feed |-> fd2, ret |-> RetError, timing |-> NoTiming]
       ELSE [feed |-> fd2,
             ret |-> IF r.ok THEN RetFrame(f2) ELSE RetNone,
             timing |-> IF fd.kind = "camera"
                        THEN [elapsed |-> elapsed, slept |-> s, didSleep |-> s > 0]
                        ELSE NoTiming]

\* close(): releases the handle.
close(fd) == [fd EXCEPT !.handle = Release(fd.handle)]

\* ------------------------------------------------------------ initial state
NoDevice == [exists |-> FALSE, live |-> FALSE, frames |-> 0, shape |-> <<480, 640>>]
NoHandle == [opened |-> FALSE, pos |-> 0, gen |-> 0]
NoFeed == [kind |-> "none", handle |-> NoHandle, width |-> 0, height |-> 0,
           fps |-> 0, frame_duration |-> 0]

\* Files and finite streams: zero frames when the device does not exist.
FiniteDevices ==
    {d \in [exists : BOOLEAN, live : {FALSE}, frames : 0..MaxFrames, shape : Shapes] :
        d.exists \/ d.frames = 0}

\* A camera that keeps delivering frames.
LiveDevices == {[exists |-> TRUE, live |-> TRUE, frames |-> 0, shape |-> sh] : sh \in Shapes}

NoWriter == [state |-> "none", fps |-> 0, w |-> 0, h |-> 0, frames |-> 0]

CapInit ==
    [capture_type |-> "", num_cameras |-> 0, viaMain |-> FALSE,
     duration |-> 0, fps |-> 0, mode |-> "none",
     opened |-> 0, ramp_total |-> 0, ramp_left |-> 0, reads |-> 0,
     frame |-> NoFrame, clock |-> 0, fetched |-> 0,
     writer |-> NoWriter, writers |-> 0, files |-> <<>>, printed |-> <<>>]

OldProfile == <<<<"width", 320>>>>

CfgInit(file) ==
    [bound |-> {}, vals |-> <<>>, prompts |-> <<>>, messages |-> 0,
     settings |-> [class |-> "dict", pairs |-> <<>>], file |-> file, file0 |-> file, opens |-> 0]

ProfileFiles == {[exists |-> FALSE, content |-> <<>>], [exists |-> TRUE, content |-> OldProfile]}

Init ==
    /\ prog \in {"feed", "show", "capture", "configure"}
    /\ pc = "start"
    /\ lastOp = "init"
    /\ ret = RetNone
    /\ timing = NoTiming
    /\ shown = <<>>
    /\ probed = "none"
    /\ cap = CapInit
    /\ device \in (IF prog \in {"feed", "show"} THEN FiniteDevices
                   ELSE IF prog = "capture" THEN FiniteDevices \cup LiveDevices
                   ELSE {NoDevice})
    /\ feed \in (IF prog \in {"feed", "show"}
                 THEN {NewCameraFeed(device, fps) : fps \in FpsValues} \cup {NewVideoFeed(device)}
                 ELSE {NoFeed})
    /\ cfg \in (IF prog = "configure" THEN {CfgInit(f) : f \in ProfileFiles}
                ELSE {CfgInit([exists |-> FALSE, content |-> <<>>])})

\* ------------------------------------------- a caller using a Feed directly
Probe(r) == IF r.b THEN "valid" ELSE "invalid"

FeedCall(op, r) ==
    /\ feed' = r.feed
    /\ ret' = r.ret
    /\ lastOp' = op
    /\ UNCHANGED <<prog, pc, device, shown, cap, cfg>>

IsValid ==
    /\ prog = "feed"
    /\ feed.handle.gen < MaxReopens
    /\ FeedCall("is_valid", is_valid(device, feed))
    /\ probed' = Probe(is_valid(device, feed).ret)
    /\ UNCHANGED timing

HasNext ==
    /\ prog = "feed"
    /\ FeedCall("has_next", has_next(device, feed))
    /\ UNCHANGED <<timing, probed>>

RetrieveNext ==
    /\ prog = "feed"
    /\ feed.kind = "camera"
    /\ FeedCall("retrieve_next", retrieve_next(device, feed))
    /\ UNCHANGED <<timing, probed>>

GetNext ==
    /\ prog = "feed"
    /\ \E resize \in BOOLEAN, correct \in BOOLEAN, t \in ProcTimes :
        LET r == get_next(device, feed, resize, correct, t) IN
        /\ FeedCall("get_next", r)
        /\ timing' = r.timing
    /\ UNCHANGED probed

Close ==
    /\ prog = "feed"
    /\ FeedCall("close", [feed |-> close(feed), ret |-> RetNone])
    /\ UNCHANGED <<timing, probed>>

\* set_fps(fps): stores fps; frame_duration keeps its constructor value.
SetFps ==
    /\ prog = "feed"
    /\ feed.kind = "camera"
    /\ \E fps \in FpsValues :
        FeedCall("set_fps", [feed |-> [feed EXCEPT !.fps = fps], ret |-> RetNone])
    /\ UNCHANGED <<timing, probed>>

\* ------------------------------------------------------------------ show()
Keys == {"q", "other"}

ShowIsValid ==
    /\ prog = "show" /\ pc = "start"
    /\ LET r == is_valid(device, feed) IN
        /\ feed' = r.feed
        /\ ret' = r.ret
        /\ probed' = Probe(r.ret)
        /\ pc' = IF r.ret.b THEN "show_loop" ELSE "done"
    /\ lastOp' = "is_valid"
    /\ UNCHANGED <<prog, device, timing, shown, cap, cfg>>

ShowHasNext ==
    /\ prog = "show" /\ pc = "show_loop"
    /\ LET r == has_next(device, feed) IN
        /\ feed' = r.feed
        /\ ret' = r.ret
        /\ pc' = IF r.ret.b THEN "show_body" ELSE "show_cleanup"
    /\ lastOp' = "has_next"
    /\ UNCHANGED <<prog, device, timing, shown, probed, cap, cfg>>

\* Loop body: get_next (always resizing), imshow, waitKey.
ShowBody ==
    /\ prog = "show" /\ pc = "show_body"
    /\ \E correct \in BOOLEAN, t \in ProcTimes, key \in Keys :
        LET r == get_next(device, feed, TRUE, correct, t) IN
        /\ feed' = r.feed
        /\ ret' = r.ret
        /\ timing' = r.timing
        /\ IF r.ret.kind = "error"
           THEN pc' = "error" /\ shown' = shown
           ELSE /\ shown' = Append(shown, r.ret.frame.idx)
                /\ pc' = IF key = "q" THEN "show_cleanup" ELSE "show_loop"
    /\ lastOp' = "get_next"
    /\ UNCHANGED <<prog, device, probed, cap, cfg>>

ShowClose ==
    /\ prog = "show" /\ pc = "show_cleanup"
    /\ feed' = close(feed)
    /\ ret' = RetNone
    /\ lastOp' = "close"
    /\ pc' = "done"
    /\ UNCHANGED <<prog, device, timing, shown, probed, cap, cfg>>

\* -------------------------------------------------------------- capture.py
CaptureTypes == {"frame", "video", "panorama"}
CameraCounts == {0, 1, 2}
Durations == {0, 1, 5}
Delays == {0, 2 * MicrosPerSecond}
Timestamps == {"2017-03-01-10-00-00", "2017-03-01-10-00-01"}

\* create_filepath(output_folder, filetype) at wall-clock second ts.
create_filepath(output_folder, filetype, ts) ==
    [dir |-> output_folder, name |-> ts, ext |-> filetype]

\* A dispatch that captures for any positive camera count.
MainDispatch_any_count(capture_type, num_cameras) ==
    IF capture_type = "frame"
    THEN IF num_cameras >= 1 THEN "capture_single_frame" ELSE "print_info"
    ELSE IF capture_type = "video"
         THEN IF num_cameras >= 1 THEN "capture_single_video" ELSE "print_info"
         ELSE "print_error"

\* What main() does with the parsed arguments.
MainDispatch(capture_type, num_cameras) ==
    IF capture_type = "frame"
    THEN IF num_cameras = 1 THEN "capture_single_frame" ELSE "print_info"
    ELSE IF capture_type = "video"
         THEN IF num_cameras = 1 THEN "capture_single_video" ELSE "print_info"
         ELSE "print_error"

\* main(): parse_args, then dispatch with the callee's default arguments.
Main ==
    /\ prog = "capture" /\ pc = "start"
    /\ \E capture_type \in CaptureTypes, num_cameras \in CameraCounts :
        LET d == MainDispatch(capture_type, num_cameras)
            c == [cap EXCEPT !.capture_type = capture_type,
                             !.num_cameras = num_cameras, !.viaMain = TRUE]
        IN CASE d = "capture_single_frame" ->
                    /\ cap' = [c EXCEPT !.mode = "frame"]
                    /\ pc' = "frame_open"
             [] d = "capture_single_video" ->
                    /\ cap' = [c EXCEPT !.mode = "video",
                                        !.duration = VIDEO_DURATION_DEFAULT,
                                        !.fps = VIDEO_FPS_DEFAULT]
                    /\ pc' = "video_open"
             [] OTHER ->
                    /\ cap' = [c EXCEPT !.printed = Append(cap.printed, d)]
                    /\ pc' = "done"
    /\ UNCHANGED <<prog, device, feed, lastOp, ret, timing, shown, probed, cfg>>

\* capture_single_video(duration=..., fps=...) called with explicit arguments.
CallCaptureSingleVideo ==
    /\ prog = "capture" /\ pc = "start"
    /\ \E duration \in Durations, fps \in FpsValues :
        cap' = [cap EXCEPT !.mode = "video", !.duration = duration, !.fps = fps]
    /\ pc' = "video_open"
    /\ UNCHANGED <<prog, device, feed, lastOp, ret, timing, shown, probed, cfg>>

\* camera_feed = CameraFeed(index); camera_feed.ramp() starts.
FrameOpen ==
    /\ prog = "capture" /\ pc = "frame_open"
    /\ feed' = NewCameraFeed(device, DEFAULT_FPS)
    /\ cap' = [cap EXCEPT !.opened = cap.opened + 1,
                          !.ramp_total = RAMP_DEFAULT, !.ramp_left = RAMP_DEFAULT]
    /\ pc' = "ramp"
    /\ lastOp' = "init"
    /\ UNCHANGED <<prog, device, ret, timing, shown, probed, cfg>>

\* The number of frames capture_single_video passes to ramp().
VideoRampFrames(fps) == fps

\* The fps capture_single_video constructs its CameraFeed with.
VideoFeedFps(fps) == DEFAULT_FPS

\* camera_feed = CameraFeed(index); camera_feed.ramp(fps) starts.
VideoOpen ==
    /\ prog = "capture" /\ pc = "video_open"
    /\ feed' = NewCameraFeed(device, VideoFeedFps(cap.fps))
    /\ cap' = [cap EXCEPT !.opened = cap.opened + 1,
                          !.ramp_total = VideoRampFrames(cap.fps),
                          !.ramp_left = VideoRampFrames(cap.fps)]
    /\ pc' = "ramp"
    /\ lastOp' = "init"
    /\ UNCHANGED <<prog, device, ret, timing, shown, probed, cfg>>

AfterRamp(mode) == IF mode = "frame" THEN "frame_get" ELSE "video_start"

\* One iteration of ramp(): get_next() with the frame discarded.
RampStep ==
    /\ prog = "capture" /\ pc = "ramp"
    /\ \E t \in ProcTimes :
        LET r == get_next(device, feed, TRUE, TRUE, t) IN
        /\ feed' = r.feed
        /\ ret' = r.ret
        /\ timing' = r.timing
        /\ IF r.ret.kind = "error"
           THEN pc' = "error" /\ cap' = cap
           ELSE /\ cap' = [cap EXCEPT !.ramp_left = cap.ramp_left - 1,
                                      !.reads = cap.reads + 1]
                /\ pc' = IF cap.ramp_left = 1 THEN AfterRamp(cap.mode) ELSE "ramp"
    /\ lastOp' = "get_next"
    /\ UNCHANGED <<prog, device, shown, probed, cfg>>

\* frame = camera_feed.get_next()
FrameGet ==
    /\ prog = "capture" /\ pc = "frame_get"
    /\ \E t \in ProcTimes :
        LET r == get_next(device, feed, TRUE, TRUE, t) IN
        /\ feed' = r.feed
        /\ ret' = r.ret
        /\ timing' = r.timing
        /\ IF r.ret.kind = "error"
           THEN pc' = "error" /\ cap' = cap
           ELSE /\ cap' = [cap EXCEPT !.frame = r.ret.frame, !.reads = cap.reads + 1]
                /\ pc' = "frame_write"
    /\ lastOp' = "get_next"
    /\ UNCHANGED <<prog, device, shown, probed, cfg>>

\* filepath = create_filepath(...); cv2.imwrite(filepath, frame); print_info
FrameWrite ==
    /\ prog = "capture" /\ pc = "frame_write"
    /\ \E ts \in Timestamps :
        cap' = [cap EXCEPT
            !.files = Append(cap.files,
                [path |-> create_filepath("out/captured_frames", "jpg", ts),
                 frame |-> cap.frame, reads |-> cap.reads,
                 handleOpen |-> feed.handle.opened]),
            !.printed = Append(cap.printed, "Frame was captured.")]
    /\ pc' = "frame_close"
    /\ UNCHANGED <<prog, device, feed, lastOp, ret, timing, shown, probed, cfg>>

\* camera_feed.close()
FrameClose ==
    /\ prog = "capture" /\ pc = "frame_close"
    /\ feed' = close(feed)
    /\ ret' = RetNone
    /\ lastOp' = "close"
    /\ pc' = "done"
    /\ UNCHANGED <<prog, device, timing, shown, probed, cap, cfg>>

\* start_time = time.time(); filepath = create_filepath(...); writer = None.
\* cap.clock is the wall clock minus start_time at the next loop test.
VideoStart ==
    /\ prog = "capture" /\ pc = "video_start"
    /\ \E delay \in Delays : cap' = [cap EXCEPT !.clock = delay]
    /\ pc' = "video_loop"
    /\ UNCHANGED <<prog, device, feed, lastOp, ret, timing, shown, probed, cfg>>

LoopContinues(clock, duration) == clock < duration * MicrosPerSecond

\* cv2.VideoWriter(filepath, MJPG, fps, (width, height)) on the first frame.
OpenWriter(writer, frame, fps) ==
    IF writer.state = "none"
    THEN [state |-> "open", fps |-> fps, w |-> frame.w, h |-> frame.h, frames |-> 0]
    ELSE writer

\* One iteration of the capture loop: get_next, create the writer, write.
VideoFetch ==
    /\ prog = "capture" /\ pc = "video_loop"
    /\ LoopContinues(cap.clock, cap.duration)
    /\ \E t \in ProcTimes :
        LET r == get_next(device, feed, TRUE, TRUE, t)
            w == OpenWriter(cap.writer, r.ret.frame, cap.fps)
        IN
        /\ feed' = r.feed
        /\ ret' = r.ret
        /\ timing' = r.timing
        /\ IF r.ret.kind = "error"
           THEN pc' = "error" /\ cap' = cap
           ELSE /\ cap' = [cap EXCEPT
                    !.frame = r.ret.frame,
                    !.fetched = cap.fetched + 1,
                    !.writers = IF cap.writer.state = "none"
                                THEN cap.writers + 1 ELSE cap.writers,
                    !.writer = [w EXCEPT !.frames = w.frames + 1],
                    !.clock = cap.clock + r.timing.elapsed + r.timing.slept]
                /\ pc' = "video_loop"
    /\ lastOp' = "get_next"
    /\ UNCHANGED <<prog, device, shown, probed, cfg>>

\* writer.release() after the loop; raises when no writer was created.
VideoReleaseWriter ==
    /\ prog = "capture" /\ pc = "video_loop"
    /\ ~LoopContinues(cap.clock, cap.duration)
    /\ IF cap.writer.state = "none"
       THEN pc' = "error" /\ cap' = cap
       ELSE /\ cap' = [cap EXCEPT !.writer.state = "released"]
            /\ pc' = "video_close"
    /\ UNCHANGED <<prog, device, feed, lastOp, ret, timing, shown, probed, cfg>>

\* camera_feed.close(); print_info
VideoClose ==
    /\ prog = "capture" /\ pc = "video_close"
    /\ feed' = close(feed)
    /\ ret' = RetNone
    /\ lastOp' = "close"
    /\ cap' = [cap EXCEPT !.printed = Append(cap.printed, "Video was captured.")]
    /\ pc' = "done"
    /\ UNCHANGED <<prog, device, timing, shown, probed, cfg>>

\* ------------------------------------------------------- utils/sorted_dict
\* The characters of a key, as their codes.
Chars(key) ==
    CASE
       key = "left-index" -> <<108, 101, 102, 116, 45, 105, 110, 100, 101, 120>>
    [] key = "right-index" -> <<114, 105, 103, 104, 116, 45, 105, 110, 100, 101, 120>>
    [] key = "source-dir" -> <<115, 111, 117, 114, 99, 101, 45, 100, 105, 114>>
    [] key = "dest-dir" -> <<100, 101, 115, 116, 45, 100, 105, 114>>
    [] key = "key-frame" -> <<107, 101, 121, 45, 102, 114, 97, 109, 101>>
    [] key = "width" -> <<119, 105, 100, 116, 104>>
    [] key = "format" -> <<102, 111, 114, 109, 97, 116>>

RECURSIVE SeqLess(_, _)
\* Python's ordering of two strings.
SeqLess(a, b) ==
    IF a = <<>> THEN b # <<>>
    ELSE IF b = <<>> THEN FALSE
    ELSE IF Head(a) # Head(b) THEN Head(a) < Head(b)
    ELSE SeqLess(Tail(a), Tail(b))

KeyLess(p, q) == SeqLess(Chars(p[1]), Chars(q[1]))

RECURSIVE InsertSorted(_, _)
InsertSorted(pair, sorted) ==
    IF sorted = <<>> THEN <<pair>>
    ELSE IF KeyLess(pair, Head(sorted)) THEN <<pair>> \o sorted
    ELSE <<Head(sorted)>> \o InsertSorted(pair, Tail(sorted))

RECURSIVE ListSort(_)
\* list.sort() on a list of (key, value) pairs with distinct keys.
ListSort(pairs) ==
    IF pairs = <<>> THEN <<>> ELSE InsertSorted(Head(pairs), ListSort(Tail(pairs)))

\* UnsortableList.sort(): pass.
UnsortableListSort(pairs) == pairs

\* mapping.items(): a list for a dict, an UnsortableList for an
\* UnsortableOrderedDict.
Items(mapping) ==
    [class |-> IF mapping.class = "UnsortableOrderedDict" THEN "UnsortableList" ELSE "list",
     pairs |-> mapping.pairs]

\* SafeRepresenter.represent_dict: takes the items, sorts them, emits them.
represent_dict(mapping) ==
    LET items == Items(mapping) IN
    IF items.class = "UnsortableList" THEN UnsortableListSort(items.pairs)
    ELSE ListSort(items.pairs)

\* ------------------------------------------------------------ configure.py
IntAnswers == {"0", "07", "x"}
StrAnswers == {"a", "b"}

IsInt(s) == s \in {"0", "07"}
ParseInt(s) == IF s = "07" THEN 7 ELSE 0

\* A numeric prompt that aborts the run on a non-numeric answer.
PromptInt_abort(name, nextPc) ==
    \E a \in IntAnswers :
        /\ cfg' = IF IsInt(a)
                  THEN [cfg EXCEPT !.prompts = Append(cfg.prompts, name),
                                   !.bound = cfg.bound \cup {name},
                                   !.vals = (name :> ParseInt(a)) @@ cfg.vals]
                  ELSE [cfg EXCEPT !.prompts = Append(cfg.prompts, name),
                                   !.messages = cfg.messages + 1]
        /\ pc' = IF IsInt(a) THEN nextPc ELSE "error"
        /\ UNCHANGED <<prog, device, feed, lastOp, ret, timing, shown, probed, cap>>

\* try: name = int(raw_input(prompt)) except ValueError: print message
PromptInt(name, nextPc) ==
    \E a \in IntAnswers :
        /\ cfg' = IF IsInt(a)
                  THEN [cfg EXCEPT !.prompts = Append(cfg.prompts, name),
                                   !.bound = cfg.bound \cup {name},
                                   !.vals = (name :> ParseInt(a)) @@ cfg.vals]
                  ELSE [cfg EXCEPT !.prompts = Append(cfg.prompts, name),
                                   !.messages = cfg.messages + 1]
        /\ pc' = nextPc
        /\ UNCHANGED <<prog, device, feed, lastOp, ret, timing, shown, probed, cap>>

\* name = raw_input(prompt)
PromptStr(name, nextPc) ==
    \E a \in StrAnswers :
        /\ cfg' = [cfg EXCEPT !.prompts = Append(cfg.prompts, name),
                              !.bound = cfg.bound \cup {name},
                              !.vals = (name :> a) @@ cfg.vals]
        /\ pc' = nextPc
        /\ UNCHANGED <<prog, device, feed, lastOp, ret, timing, shown, probed, cap>>

PromptLeftIndex == prog = "configure" /\ pc = "start" /\ PromptInt("left_index", "right_index")
PromptRightIndex == prog = "configure" /\ pc = "right_index" /\ PromptInt("right_index", "source_dir")
PromptSourceDir == prog = "configure" /\ pc = "source_dir" /\ PromptStr("source_dir", "dest_dir")
PromptDestDir == prog = "configure" /\ pc = "dest_dir" /\ PromptStr("dest_dir", "key_frame")
PromptKeyFrame == prog = "configure" /\ pc = "key_frame" /\ PromptStr("key_frame", "width")
PromptWidth == prog = "configure" /\ pc = "width" /\ PromptInt("width", "format")
PromptFormat == prog = "configure" /\ pc = "format" /\ PromptStr("format", "settings")

\* The settings literal: key and the local it reads, in source order.
SettingsFields ==
    << <<"left-index", "left_index">>, <<"right-index", "right_index">>,
       <<"source-dir", "source_dir">>, <<"dest-dir", "dest_dir">>,
       <<"key-frame", "key_frame">>, <<"width", "width">>, <<"format", "format">> >>

PromptOrder == [i \in 1..Len(SettingsFields) |-> SettingsFields[i][2]]
KeyOrder == [i \in 1..Len(SettingsFields) |-> SettingsFields[i][1]]

\* settings = {...}: a plain dict; reading an unbound local raises.
BuildSettings ==
    /\ prog = "configure" /\ pc = "settings"
    /\ IF \A i \in 1..Len(SettingsFields) : SettingsFields[i][2] \in cfg.bound
       THEN /\ cfg' = [cfg EXCEPT !.settings =
                        [class |-> "dict",
                         pairs |-> [i \in 1..Len(SettingsFields) |->
                                      <<SettingsFields[i][1], cfg.vals[SettingsFields[i][2]]>>]]]
            /\ pc' = "dump"
       ELSE pc' = "error" /\ cfg' = cfg
    /\ UNCHANGED <<prog, device, feed, lastOp, ret, timing, shown, probed, cap>>

\* with open(config_dir + '/profile.yml', 'w') as file: yaml.dump(settings, file)
DumpProfile ==
    /\ prog = "configure" /\ pc = "dump"
    /\ cfg' = [cfg EXCEPT !.opens = cfg.opens + 1,
                          !.file = [exists |-> TRUE,
                                    content |-> represent_dict(cfg.settings)]]
    /\ pc' = "done"
    /\ UNCHANGED <<prog, device, feed, lastOp, ret, timing, shown, probed, cap>>

Next ==
    \/ IsValid \/ HasNext \/ RetrieveNext \/ GetNext \/ Close \/ SetFps
    \/ ShowIsValid \/ ShowHasNext \/ ShowBody \/ ShowClose
    \/ Main \/ CallCaptureSingleVideo
    \/ FrameOpen \/ RampStep \/ FrameGet \/ FrameWrite \/ FrameClose
    \/ VideoOpen \/ VideoStart \/ VideoFetch \/ VideoReleaseWriter \/ VideoClose
    \/ PromptLeftIndex \/ PromptRightIndex \/ PromptSourceDir \/ PromptDestDir
    \/ PromptKeyFrame \/ PromptWidth \/ PromptFormat \/ BuildSettings \/ DumpProfile

Spec == Init /\ [][Next]_vars

\* ================================================================== claims
\* Budget of processing time below which get_next sleeps.
PacingBudget(fd) == fd.frame_duration - FRAME_OVERHEAD
\* One millisecond.
PacingTolerance == MicrosPerSecond \div 1000

Abs(x) == IF x < 0 THEN -x ELSE x
Keys_of(content) == [i \in 1..Len(content) |-> content[i][1]]
NumericLocals == {"left_index", "right_index", "width"}
Prompted == {cfg.prompts[i] : i \in 1..Len(cfg.prompts)}

\* C1: when the handle can deliver a frame, is_valid() returns True and
\* leaves a freshly reopened handle at the start of the source, and a
\* get_next() issued right after it returns frame 1 of the source.
C1_ProbeKeepsFirstFrame ==
    [][ /\ ((IsValid \/ ShowIsValid) /\ CanGrab(device, feed.handle)) =>
            /\ ret' = RetBool(TRUE)
            /\ feed'.handle.opened
            /\ feed'.handle.pos = 0
            /\ feed'.handle.gen = feed.handle.gen + 1
        /\ (probed = "valid" /\ lastOp = "is_valid" /\ lastOp' = "get_next") =>
            (ret'.kind = "frame" /\ ret'.frame.idx = 1) ]_vars

C1_Witness ==
    /\ probed = "valid" /\ feed.handle.gen > 0
    /\ lastOp = "get_next" /\ ret.kind = "frame" /\ ret.frame.idx = 1

\* C2: when the handle's grab fails, is_valid() returns False and leaves
\* every field of the feed, the handle included, as it was; and once
\* is_valid() has returned False no get_next() on the feed returns a frame.
C2_InvalidProbe ==
    [][ /\ ((IsValid \/ ShowIsValid) /\ ~CanGrab(device, feed.handle)) =>
            (ret' = RetBool(FALSE) /\ feed' = feed)
        /\ (probed' = "invalid" /\ lastOp' = "get_next") => ret'.kind # "frame" ]_vars

C2_Witness ==
    /\ probed = "invalid" /\ feed.handle.opened
    /\ lastOp = "get_next" /\ ret.kind \in {"none", "error"}

\* C3: main() runs single-frame capture once for ("frame", 1), a video
\* capture of 5 s at 30 fps once for ("video", 1), and for every other
\* pair prints one message, opens no camera and writes no file.
C3_MainDispatch ==
    (prog = "capture" /\ cap.viaMain) =>
        /\ (cap.capture_type = "frame" /\ cap.num_cameras = 1) =>
            /\ cap.mode = "frame"
            /\ cap.opened <= 1 /\ cap.writers = 0
            /\ (pc = "done" => cap.opened = 1 /\ Len(cap.files) = 1)
        /\ (cap.capture_type = "video" /\ cap.num_cameras = 1) =>
            /\ cap.mode = "video"
            /\ cap.duration = 5 /\ cap.fps = 30
            /\ cap.opened <= 1 /\ cap.writers <= 1 /\ cap.files = <<>>
            /\ (pc = "done" => cap.opened = 1 /\ cap.writers = 1)
        /\ (cap.capture_type \notin {"frame", "video"} \/ cap.num_cameras # 1) =>
            /\ pc = "done" /\ cap.mode = "none"
            /\ Len(cap.printed) = 1
            /\ cap.opened = 0 /\ feed = NoFeed
            /\ cap.files = <<>> /\ cap.writer = NoWriter

C3_Witness ==
    /\ prog = "capture" /\ cap.viaMain /\ pc = "done"
    /\ cap.capture_type = "video" /\ cap.num_cameras = 1
    /\ cap.writer.state = "released"

\* C4: capture_single_frame opens one CameraFeed, discards 30 frames, reads
\* the 31st, writes that frame to one file out/captured_frames/<ts>.jpg
\* while the handle is still open, then releases the handle.
C4_SingleFrameOrder ==
    (prog = "capture" /\ cap.mode = "frame") =>
        /\ cap.opened <= 1 /\ Len(cap.files) <= 1
        /\ (pc = "ramp" => cap.reads < 30 /\ cap.files = <<>>)
        /\ (pc = "frame_get" => cap.reads = 30 /\ cap.files = <<>>)
        /\ (pc \in {"frame_write", "frame_close"} => cap.reads = 31 /\ feed.handle.opened)
        /\ (pc = "frame_write" => cap.files = <<>>)
        /\ \A i \in 1..Len(cap.files) :
            /\ cap.files[i].reads = 31
            /\ cap.files[i].frame.idx = 31
            /\ cap.files[i].handleOpen
            /\ cap.files[i].path.dir = "out/captured_frames"
            /\ cap.files[i].path.ext = "jpg"
            /\ cap.files[i].path.name \in Timestamps
        /\ (pc = "done" =>
            /\ cap.opened = 1 /\ cap.reads = 31
            /\ Len(cap.files) = 1
            /\ ~feed.handle.opened)

C4_Witness ==
    /\ prog = "capture" /\ cap.mode = "frame" /\ pc = "done"
    /\ Len(cap.files) = 1 /\ cap.files[1].frame.idx = 31
    /\ ~feed.handle.opened

\* C5: capture_single_video opens its CameraFeed at the requested fps
\* (fps and frame_duration follow the argument) and ramps the default
\* number of frames whatever the fps argument is.
C5_VideoFeedAtRequestedFps ==
    (prog = "capture" /\ cap.mode = "video" /\ feed.kind = "camera") =>
        /\ feed.fps = cap.fps
        /\ feed.frame_duration = FrameDuration(cap.fps)
        /\ cap.ramp_total = 30

\* C6: with a camera that delivers every frame, capture_single_video for
\* every duration ends with one writer created, every fetched frame
\* appended, the writer released and the camera handle released.
C6_VideoAlwaysFinalizes ==
    (prog = "capture" /\ cap.mode = "video" /\ device.live /\ pc \in {"done", "error"}) =>
        /\ pc = "done"
        /\ cap.writers = 1
        /\ cap.writer.state = "released"
        /\ cap.writer.frames = cap.fetched
        /\ ~feed.handle.opened

\* C7: a CameraFeed.get_next whose processing took less than
\* frame_duration - 72906 us lasts frame_duration in total (within the
\* tolerance); one whose processing exceeds that budget does not sleep.
C7_Pacing ==
    (lastOp = "get_next" /\ feed.kind = "camera" /\ ret.kind # "error") =>
        /\ timing.elapsed < PacingBudget(feed) =>
            Abs(timing.elapsed + timing.slept - feed.frame_duration) <= PacingTolerance
        /\ timing.elapsed > PacingBudget(feed) =>
            (~timing.didSleep /\ timing.slept = 0)

\* C8: the profile written by parse() lists its keys in insertion order
\* left-index, right-index, source-dir, dest-dir, key-frame, width, format.
C8_ProfileInInsertionOrder ==
    (prog = "configure" /\ pc = "done") => Keys_of(cfg.file.content) = KeyOrder

\* C9: a non-numeric answer to a numeric prompt prints one message and
\* neither aborts nor re-prompts: the seven prompts are issued once each in
\* order; a run with an unassigned numeric field ends in error before the
\* profile is opened, leaving the file as it was.
C9_BadNumberContinues ==
    prog = "configure" =>
        /\ cfg.prompts = SubSeq(PromptOrder, 1, Len(cfg.prompts))
        /\ (pc \in {"settings", "dump", "done", "error"} => cfg.prompts = PromptOrder)
        /\ cfg.messages = Cardinality((Prompted \cap NumericLocals) \ cfg.bound)
        /\ (pc = "error" =>
            /\ cfg.messages >= 1
            /\ cfg.opens = 0
            /\ cfg.file = cfg.file0)
        /\ (pc \in {"dump", "done"} => cfg.messages = 0)
        /\ (cfg.messages >= 1 => cfg.opens = 0 /\ cfg.file = cfg.file0)

C9_Witness ==
    /\ prog = "configure" /\ pc = "error"
    /\ cfg.messages = 2 /\ Len(cfg.prompts) = 7
    /\ cfg.file0.exists /\ cfg.file = cfg.file0

\* C10 as stated: every show() iteration consumes two frames and displays
\* the second, at most floor(N/2) frames are displayed, show() always stops
\* by a failed grab or 'q' and then releases the handle, and an invalid feed
\* displays nothing and is never closed.
C10_ShowAlwaysReleases ==
    prog = "show" =>
        /\ \A i \in 1..Len(shown) : shown[i] = 2 * i
        /\ Len(shown) <= device.frames \div 2
        /\ (probed = "valid" /\ pc \notin {"show_loop", "show_body", "show_cleanup"}) =>
            (pc = "done" /\ lastOp = "close" /\ ~feed.handle.opened)
        /\ probed = "invalid" =>
            /\ pc = "done" /\ shown = <<>>
            /\ lastOp = "is_valid" /\ feed.handle.gen = 0 /\ feed.handle.pos = 0

\* C10 amended: as above, except that when has_next() consumed the last
\* frame of an odd-length source get_next() reads no frame, the resize
\* raises and show() ends there, floor(N/2) frames displayed and the handle
\* still open.
C10_ShowConsumesPairs ==
    prog = "show" =>
        /\ \A i \in 1..Len(shown) : shown[i] = 2 * i
        /\ Len(shown) <= device.frames \div 2
        /\ (probed = "valid" /\ pc = "done") =>
            (lastOp = "close" /\ ~feed.handle.opened)
        /\ pc = "error" =>
            /\ probed = "valid" /\ lastOp = "get_next"
            /\ device.frames % 2 = 1
            /\ feed.handle.pos = device.frames
            /\ Len(shown) = device.frames \div 2
            /\ feed.handle.opened
        /\ probed = "invalid" =>
            /\ pc = "done" /\ shown = <<>>
            /\ lastOp = "is_valid" /\ feed.handle.gen = 0 /\ feed.handle.pos = 0

C10_Witness ==
    /\ prog = "show" /\ pc = "error"
    /\ device.frames = 3 /\ shown = <<2>>
    /\ feed.handle.opened

====
